---- MODULE Spec2Model ----
(***************************************************************************)
(* The Twilio <-> OpenAI Realtime audio relay of ai-receptionist.          *)
(*                                                                         *)
(* The repository holds several revisions of server.mjs.  The variable rev *)
(* says which one is running; every handler of every revision is one       *)
(* action, named <revision prefix>_<handler>:                              *)
(*                                                                         *)
(*   rev         prefix  source                      AI connection         *)
(*   "keepalive" PK      src/unnamed/part_003:223-537  one per call        *)
(*   "queue"     PQ      src/server.mjs:536-810        one per call        *)
(*   "notify"    PN      src/server.mjs:231-533        one per call        *)
(*   "calls"     PC      src/unnamed/part_002          one per call        *)
(*   "warm"      GW      src/unnamed/part_001          one shared (global) *)
(*   "shirley"   GS      src/server.mjs:1-229          one shared (global) *)
(*                                                                         *)
(* A WebSocket of the ws library is modelled at its interface: readyState  *)
(* CONNECTING / OPEN / CLOSING / CLOSED, send() that throws while          *)
(* CONNECTING, delivers while OPEN and is dropped afterwards, close() that *)
(* starts the closing handshake once, and the open / message / close       *)
(* events.  Every Node callback runs to completion, so it is one step.     *)
(***************************************************************************)
EXTENDS Integers, Sequences, FiniteSets, TLC

VARIABLES
    rev,        \* the revision of server.mjs that is running
    sess,       \* the per-connection closure state of wss.on('connection')
    conn,       \* the WebSocket instances opened to the AI backend
    globalAI,   \* shared revisions: the instance the global handle holds (0: null)
    aiReady,    \* shared revisions: the global readiness flag
    reconnects, \* shared revisions: pending setTimeout(ensureGlobalAI, 1000) timers
    events,     \* number of callbacks run so far (negative: not counted)
    audio,      \* a buffer of audio on its way through the codec helpers
    proc        \* the Node process: "up", or "down" once it has exited

vars == <<rev, sess, conn, globalAI, aiReady, reconnects, events, audio, proc>>

(* Bound of the exploration: callbacks run in one behaviour. *)
MaxEvents == 6

Sessions == 1..2
Instances == 1..(MaxEvents + 2)

PerCallRevs == {"keepalive", "queue", "notify", "calls"}
SharedRevs == {"warm", "shirley"}
Revisions == PerCallRevs \cup SharedRevs

(* The identifiers Twilio puts in a start event; "" is a missing field     *)
(* (data.start?.callSid || '').                                            *)
CallSidOf(s) == IF s = 1 THEN "CA1" ELSE "CA2"
StreamSidOf(s) == IF s = 1 THEN "MZ1" ELSE "MZ2"

(* Text is a sequence of one-character strings, so that the string         *)
(* operations of the handlers (trim, toLowerCase, split, the regular       *)
(* expressions) are computed and not assumed.                              *)
UpperCase == <<"A", "B", "C", "D", "E", "F", "G", "H", "I", "J", "K", "L", "M", "N", "O", "P", "Q", "R", "S", "T", "U", "V", "W", "X", "Y", "Z">>
LowerCase == <<"a", "b", "c", "d", "e", "f", "g", "h", "i", "j", "k", "l", "m", "n", "o", "p", "q", "r", "s", "t", "u", "v", "w", "x", "y", "z">>
Digits == {"0", "1", "2", "3", "4", "5", "6", "7", "8", "9"}
Whitespace == {" "}

(* The lower-case letter of each upper-case letter. *)
LowerOf ==
    [c \in {UpperCase[k] : k \in 1..Len(UpperCase)} |->
        LowerCase[CHOOSE k \in 1..Len(UpperCase) : UpperCase[k] = c]]

(* String.prototype.toLowerCase *)
toLowerCase(str) ==
    [i \in 1..Len(str) |-> IF str[i] \in DOMAIN LowerOf THEN LowerOf[str[i]] ELSE str[i]]

(* String.prototype.trim *)
RECURSIVE trimStart(_)
trimStart(str) ==
    IF str # <<>> /\ Head(str) \in Whitespace THEN trimStart(Tail(str)) ELSE str

RECURSIVE trimEnd(_)
trimEnd(str) ==
    IF str # <<>> /\ str[Len(str)] \in Whitespace
    THEN trimEnd(SubSeq(str, 1, Len(str) - 1))
    ELSE str

trim(str) == trimEnd(trimStart(str))

(* String.prototype.split(sep), sep one character: "a;b;" gives            *)
(* <<"a", "b", "">>, and "" gives <<"">>.                                  *)
RECURSIVE split(_, _)
split(str, sep) ==
    IF \A i \in 1..Len(str) : str[i] # sep THEN <<str>>
    ELSE LET k == CHOOSE i \in 1..Len(str) :
                     str[i] = sep /\ \A j \in 1..(i - 1) : str[j] # sep
         IN <<SubSeq(str, 1, k - 1)>> \o split(SubSeq(str, k + 1, Len(str)), sep)

(* RegExp.test for a pattern that is a plain word: str contains sub. *)
Contains(str, sub) ==
    \E i \in 1..(Len(str) - Len(sub) + 1) : SubSeq(str, i, i + Len(sub) - 1) = sub

(* \w of a regular expression. *)
IsWordChar(c) ==
    \/ \E k \in 1..Len(UpperCase) : c = UpperCase[k] \/ c = LowerCase[k]
    \/ c \in Digits
    \/ c = "_"

(* A test that matches the upper-case word only. *)
IsTransferExact(line) == line = <<"T", "R", "A", "N", "S", "F", "E", "R">>

(* /^TRANSFER$/i.test(line) and /^DONE$/i.test(line) *)
IsTransfer(line) == toLowerCase(line) = <<"t", "r", "a", "n", "s", "f", "e", "r">>
IsDone(line) == toLowerCase(line) = <<"d", "o", "n", "e">>

(* /^LEAD\b/i.test(line) *)
IsLead(line) ==
    /\ Len(line) >= 4
    /\ toLowerCase(SubSeq(line, 1, 4)) = <<"l", "e", "a", "d">>
    /\ (Len(line) = 4 \/ ~IsWordChar(line[5]))

(* line.replace(/^LEAD\s*/i, '') of a line that passed the test above. *)
LeadBody(line) == trimStart(SubSeq(line, 5, Len(line)))

(* obj[k] = v *)
Assign(obj, k, v) == [x \in DOMAIN obj \cup {k} |-> IF x = k THEN v ELSE obj[x]]

(* { ...a, ...b } *)
Spread(a, b) ==
    [x \in DOMAIN a \cup DOMAIN b |-> IF x \in DOMAIN b THEN b[x] ELSE a[x]]

(* The body of body.split(';').forEach(pair => ...):                       *)
(*   const [k, v] = pair.split('=');  if (!k) return;                      *)
(*   out[k.trim().toLowerCase()] = (v || '').trim();                       *)
LeadPair(out, pair) ==
    LET parts == split(pair, "=")
        k == parts[1]
        v == IF Len(parts) >= 2 THEN parts[2] ELSE <<>>
    IN IF k = <<>> THEN out ELSE Assign(out, toLowerCase(trim(k)), trim(v))

RECURSIVE LeadPairs(_, _)
LeadPairs(out, pairs) ==
    IF pairs = <<>> THEN out ELSE LeadPairs(LeadPair(out, Head(pairs)), Tail(pairs))

(* parseLeadLine(line): the pairs of the line merged into a new object. *)
parseLeadLine(line) == LeadPairs(<<>>, split(LeadBody(line), ";"))

PriorityKey == <<"p", "r", "i", "o", "r", "i", "t", "y">>

(* String(obj.priority || '').toLowerCase() === 'true' *)
SaysPriority(obj) ==
    PriorityKey \in DOMAIN obj /\ toLowerCase(obj[PriorityKey]) = <<"t", "r", "u", "e">>

(* A flag that follows the latest line. *)
PriorityOfLine(priority, obj) == SaysPriority(obj)

(* if (String(...).toLowerCase() === 'true') st.priority = true; *)
StickyPriority(priority, obj) == IF SaysPriority(obj) THEN TRUE ELSE priority

(* /(leak|flood|no heat|no ac|smoke|sparks|burning)/i.test(line) *)
EmergencyWords ==
    {<<"l", "e", "a", "k">>,
     <<"f", "l", "o", "o", "d">>,
     <<"n", "o", " ", "h", "e", "a", "t">>,
     <<"n", "o", " ", "a", "c">>,
     <<"s", "m", "o", "k", "e">>,
     <<"s", "p", "a", "r", "k", "s">>,
     <<"b", "u", "r", "n", "i", "n", "g">>}

IsEmergency(line) == \E w \in EmergencyWords : Contains(toLowerCase(line), w)

(* Text deltas the AI backend emits (msg.delta). *)
TextLines ==
    {<<"T", "R", "A", "N", "S", "F", "E", "R">>,
     <<" ", "t", "r", "a", "n", "s", "f", "e", "r", " ">>,
     <<"T", "R", "A", "N", "S", "F", "E", "R", "S">>,
     <<"D", "O", "N", "E">>,
     <<"D", "o", "n", "e", " ">>,
     <<"h", "e", "l", "l", "o">>}

-----------------------------------------------------------------------------
(* Messages the relay sends to the AI backend. *)
SessionUpdate == [type |-> "session.update", s |-> 0, n |-> 0]
ResponseCreate(s) == [type |-> "response.create", s |-> s, n |-> 0]
AudioAppend(s, n) == [type |-> "input_audio_buffer.append", s |-> s, n |-> n]
AudioCommit(s) == [type |-> "input_audio_buffer.commit", s |-> s, n |-> 0]

(* Frames the relay sends to Twilio: the streamSid field as sent ("" when  *)
(* empty or absent), and for AI audio the output_audio.delta event it is   *)
(* made from, numbered as the session's handler received them.             *)
SilenceFrame(sid) == [kind |-> "keepalive", streamSid |-> sid, n |-> 0]
AudioFrame(sid, n) == [kind |-> "audio", streamSid |-> sid, n |-> n]

NoConn == [rs |-> "NONE", opened |-> FALSE, log |-> <<>>, subs |-> {}]

(* new WebSocket(url): an instance in readyState CONNECTING. *)
connectRealtime == [rs |-> "CONNECTING", opened |-> FALSE, log |-> <<>>, subs |-> {}]

(* ws send(): throws while CONNECTING (WsThrows), is written to the socket *)
(* while OPEN, and is dropped without an exception while CLOSING / CLOSED. *)
WsThrows(c) == c.rs = "CONNECTING"
WsSend(c, m) == IF c.rs = "OPEN" THEN [c EXCEPT !.log = Append(@, m)] ELSE c

RECURSIVE WsSendAll(_, _)
WsSendAll(c, ms) ==
    IF ms = <<>> THEN c ELSE WsSendAll(WsSend(c, Head(ms)), Tail(ms))

(* ws close(): CONNECTING (handshake aborted) and OPEN go to CLOSING; a    *)
(* socket that is CLOSING or CLOSED is left alone.                         *)
WsClose(c) == IF c.rs \in {"CONNECTING", "OPEN"} THEN [c EXCEPT !.rs = "CLOSING"] ELSE c

NoSession ==
    [tw |-> "NONE", stopped |-> FALSE, callSid |-> "", streamSid |-> "",
     keepAlive |-> 0, timers |-> {}, nTimers |-> 0, sentRealAudio |-> FALSE,
     aiReady |-> FALSE, pendingAudioToAI |-> <<>>, rx |-> 0, rxAudio |-> 0,
     toTwilio |-> <<>>, redirects |-> <<>>, finalized |-> 0, aiCloseCalls |-> 0,
     flushed |-> 0, lead |-> <<>>, priority |-> FALSE, rxLead |-> <<>>,
     dropped |-> FALSE, settled |-> 0, delivered |-> 0, errors |-> 0]

(* The closure state right after wss.on('connection'). *)
NewSession == [NoSession EXCEPT !.tw = "OPEN"]

(* A send that puts the frame ahead of those already written. *)
TwilioSendFirst(r, f) == IF r.tw = "OPEN" THEN [r EXCEPT !.toTwilio = <<f>> \o @] ELSE r

(* twilioWs.send(frame): written while the socket is open. *)
TwilioSend(r, f) == IF r.tw = "OPEN" THEN [r EXCEPT !.toTwilio = Append(@, f)] ELSE r

(* The handler of a session is given an output_audio.delta event. *)
AudioEvent(r) == [r EXCEPT !.rxAudio = @ + 1]

(* A start event that starts no timer. *)
SetNoKeepAlive(r) == r

(* keepAlive = setInterval(...): a new interval timer; the handle holds it. *)
SetKeepAlive(r) ==
    [r EXCEPT !.nTimers = @ + 1, !.timers = @ \cup {r.nTimers + 1},
              !.keepAlive = r.nTimers + 1]

(* if (keepAlive) { clearInterval(keepAlive); keepAlive = null; } *)
ClearKeepAlive(r) ==
    IF r.keepAlive # 0
    THEN [r EXCEPT !.timers = @ \ {r.keepAlive}, !.keepAlive = 0]
    ELSE r

(* twilioClient.calls(callSid).update({url: .../transfer | .../goodbye}) *)
Redirect(r, dest) == [r EXCEPT !.redirects = Append(@, dest)]

(* The LEAD deltas a session has received, in order. *)
Received(r, delta) ==
    IF IsLead(trim(delta)) THEN [r EXCEPT !.rxLead = Append(@, delta)] ELSE r

(* No buffer is in the codec helpers. *)
NoAudio == [stage |-> "none", src |-> <<>>, data |-> <<>>]

(* One callback runs, in a process that has not exited.  A behaviour whose *)
(* callbacks are counted stops after MaxEvents of them; events < 0 says    *)
(* they are not counted.                                                   *)
Tick ==
    /\ proc = "up"
    /\ IF events < 0 THEN events' = events
       ELSE events < MaxEvents /\ events' = events + 1

(* wss.on('connection') of a per-call revision: the closure state and the  *)
(* call's own AI socket, ai = connectRealtime().                           *)
PerCallConnection(s) ==
    /\ rev \in PerCallRevs
    /\ sess[s].tw = "NONE"
    /\ \A t \in Sessions : t < s => sess[t].tw # "NONE"
    /\ Tick
    /\ sess' = [sess EXCEPT ![s] = NewSession]
    /\ conn' = [conn EXCEPT ![s] = [connectRealtime EXCEPT !.subs = {s}]]
    /\ UNCHANGED <<audio, rev, proc, globalAI, aiReady, reconnects>>

(* A flush that empties the queue from its newest end. *)
RECURSIVE FlushMessagesNewestFirst(_, _)
FlushMessagesNewestFirst(s, q) ==
    IF q = <<>> THEN <<>>
    ELSE <<AudioAppend(s, q[Len(q)]), AudioCommit(s)>>
             \o FlushMessagesNewestFirst(s, SubSeq(q, 1, Len(q) - 1))

(* The frames of pendingAudioToAI as the flush loop sends them. *)
RECURSIVE FlushMessages(_, _)
FlushMessages(s, q) ==
    IF q = <<>> THEN <<>>
    ELSE <<AudioAppend(s, Head(q)), AudioCommit(s)>> \o FlushMessages(s, Tail(q))

-----------------------------------------------------------------------------
(* Revision "keepalive": src/unnamed/part_003:351-534. *)

PK_AIOpen(s) ==
    /\ rev = "keepalive"
    /\ conn[s].rs = "CONNECTING"
    /\ Tick
    /\ LET r == sess[s]
           c0 == [conn[s] EXCEPT !.rs = "OPEN", !.opened = TRUE]
           c1 == WsSend(c0, SessionUpdate)
           c2 == IF ~r.stopped THEN WsSend(c1, ResponseCreate(s)) ELSE c1
           flush == ~r.stopped /\ r.pendingAudioToAI # <<>>
           c3 == IF flush THEN WsSendAll(c2, FlushMessages(s, r.pendingAudioToAI)) ELSE c2
       IN /\ conn' = [conn EXCEPT ![s] = c3]
          /\ sess' = [sess EXCEPT ![s] =
                        [r EXCEPT !.aiReady = TRUE,
                                  !.pendingAudioToAI = IF flush THEN <<>> ELSE @,
                                  !.flushed = IF flush THEN Len(r.pendingAudioToAI) ELSE @]]
    /\ UNCHANGED <<audio, rev, proc, globalAI, aiReady, reconnects>>

(* ai.on('close'): logs only. *)
PK_AIClose(s) ==
    /\ rev = "keepalive"
    /\ conn[s].rs \in {"CONNECTING", "OPEN", "CLOSING"}
    /\ Tick
    /\ conn' = [conn EXCEPT ![s].rs = "CLOSED"]
    /\ UNCHANGED <<audio, rev, proc, sess, globalAI, aiReady, reconnects>>

PK_TwilioStart(s, callSid, streamSid) ==
    /\ rev = "keepalive"
    /\ sess[s].tw = "OPEN"
    /\ Tick
    /\ LET r0 == [sess[s] EXCEPT !.callSid = callSid, !.streamSid = streamSid]
           r1 == IF r0.keepAlive = 0 THEN SetKeepAlive(r0) ELSE r0
       IN sess' = [sess EXCEPT ![s] = r1]
    /\ UNCHANGED <<audio, rev, proc, conn, globalAI, aiReady, reconnects>>

PK_TwilioMedia(s) ==
    /\ rev = "keepalive"
    /\ sess[s].tw = "OPEN"
    /\ Tick
    /\ LET r == [sess[s] EXCEPT !.rx = @ + 1]
           n == r.rx
       IN IF r.aiReady /\ conn[s].rs = "OPEN" /\ ~r.stopped
          THEN /\ conn' = [conn EXCEPT ![s] =
                              WsSend(WsSend(@, AudioAppend(s, n)), AudioCommit(s))]
               /\ sess' = [sess EXCEPT ![s] = r]
          ELSE /\ sess' = [sess EXCEPT ![s] =
                              [r EXCEPT !.pendingAudioToAI = Append(@, n)]]
               /\ UNCHANGED conn
    /\ UNCHANGED <<audio, rev, proc, globalAI, aiReady, reconnects>>

PK_TwilioStop(s) ==
    /\ rev = "keepalive"
    /\ sess[s].tw = "OPEN"
    /\ Tick
    /\ sess' = [sess EXCEPT ![s] =
                  [ClearKeepAlive(@) EXCEPT !.stopped = TRUE, !.aiCloseCalls = @ + 1]]
    /\ conn' = [conn EXCEPT ![s] = WsClose(@)]
    /\ UNCHANGED <<audio, rev, proc, globalAI, aiReady, reconnects>>

PK_TwilioClose(s) ==
    /\ rev = "keepalive"
    /\ sess[s].tw = "OPEN"
    /\ Tick
    /\ sess' = [sess EXCEPT ![s] =
                  [ClearKeepAlive(@) EXCEPT !.tw = "CLOSED", !.aiCloseCalls = @ + 1]]
    /\ conn' = [conn EXCEPT ![s] = WsClose(@)]
    /\ UNCHANGED <<audio, rev, proc, globalAI, aiReady, reconnects>>

(* The interval callback of keepAlive. *)
PK_keepAlive(s) ==
    /\ rev = "keepalive"
    /\ sess[s].timers # {}
    /\ Tick
    /\ LET r == sess[s]
       IN sess' = [sess EXCEPT ![s] =
                     IF r.stopped THEN r
                     ELSE IF r.tw = "OPEN" /\ r.streamSid # "" /\ ~r.sentRealAudio
                          THEN TwilioSend(r, SilenceFrame(r.streamSid))
                          ELSE r]
    /\ UNCHANGED <<audio, rev, proc, conn, globalAI, aiReady, reconnects>>

(* ai.on('message'), msg.type = 'output_audio.delta'. *)
PK_onAudioDelta(r0) ==
    LET r == AudioEvent(r0)
    IN IF ~r.stopped /\ r.streamSid # "" /\ r.tw = "OPEN"
       THEN LET r1 == IF ~r.sentRealAudio /\ r.keepAlive # 0
                      THEN [ClearKeepAlive(r) EXCEPT !.sentRealAudio = TRUE]
                      ELSE r
            IN TwilioSend(r1, AudioFrame(r1.streamSid, r1.rxAudio))
       ELSE r

(* ai.on('message'), msg.type = 'output_text.delta'. *)
PK_onTextDelta(r, delta) ==
    LET line == trim(delta)
    IN IF IsTransfer(line) /\ r.callSid # "" /\ ~r.stopped THEN Redirect(r, "transfer")
       ELSE IF IsDone(line) /\ r.callSid # "" /\ ~r.stopped THEN Redirect(r, "goodbye")
       ELSE r

(* A message can arrive while the socket is OPEN, or CLOSING after it was  *)
(* open (the close handshake is not finished).                             *)
Receiving(c) == c.rs = "OPEN" \/ (c.rs = "CLOSING" /\ c.opened)

PK_AIAudio(s) ==
    /\ rev = "keepalive"
    /\ Receiving(conn[s])
    /\ Tick
    /\ sess' = [sess EXCEPT ![s] = PK_onAudioDelta(@)]
    /\ UNCHANGED <<audio, rev, proc, conn, globalAI, aiReady, reconnects>>

PK_AIText(s, line) ==
    /\ rev = "keepalive"
    /\ Receiving(conn[s])
    /\ Tick
    /\ sess' = [sess EXCEPT ![s] = PK_onTextDelta(@, line)]
    /\ UNCHANGED <<audio, rev, proc, conn, globalAI, aiReady, reconnects>>

(* Frames that are not well-formed events.  A raw frame of the telephony   *)
(* socket: whether JSON.parse accepts it, its event field, and whether     *)
(* data.media.payload is there.                                            *)
MalformedTwilioFrames ==
    {[json |-> FALSE, event |-> "", payload |-> "missing"],
     [json |-> TRUE, event |-> "dtmf", payload |-> "missing"],
     [json |-> TRUE, event |-> "media", payload |-> "missing"]}

(* A raw frame of the AI socket: whether JSON.parse accepts it, its type   *)
(* field, and whether msg.audio / msg.delta is there.                      *)
MalformedAIFrames ==
    {[json |-> FALSE, type |-> "", body |-> FALSE],
     [json |-> TRUE, type |-> "session.created", body |-> FALSE],
     [json |-> TRUE, type |-> "output_audio.delta", body |-> FALSE],
     [json |-> TRUE, type |-> "output_text.delta", body |-> FALSE]}

(* A decoder that accepts a missing payload. *)
DecodeAcceptsAll(raw) == FALSE

(* decodeMuLawBuffer(data.media.payload): Buffer.from(undefined, 'base64') *)
(* throws a TypeError.                                                     *)
DecodeThrows(raw) == raw.payload = "missing"

(* The handler left by an exception (catch: log only) or with no branch    *)
(* taken: nothing is written.  dropped records that it happened.           *)
Dropped(s) ==
    /\ Tick
    /\ sess' = [sess EXCEPT ![s].dropped = TRUE]
    /\ UNCHANGED <<audio, rev, proc, conn, globalAI, aiReady, reconnects>>

(* twilioWs.on('message') for a raw frame: JSON.parse in the try block,    *)
(* then the branch of data.event.                                          *)
PK_TwilioMessage(s, raw) ==
    /\ rev = "keepalive"
    /\ sess[s].tw = "OPEN"
    /\ IF raw.json /\ raw.event = "media" /\ ~DecodeThrows(raw)
       THEN PK_TwilioMedia(s)
       ELSE Dropped(s)

(* ai.on('message') for a raw frame: JSON.parse in the try block, then     *)
(* msg.type === 'output_audio.delta' && msg.audio, and                     *)
(* msg.type === 'output_text.delta' && msg.delta.                          *)
PK_AIMessage(s, raw) ==
    /\ rev = "keepalive"
    /\ Receiving(conn[s])
    /\ IF raw.json /\ raw.type = "output_audio.delta" /\ raw.body
       THEN PK_AIAudio(s)
       ELSE IF raw.json /\ raw.type = "output_text.delta" /\ raw.body
            THEN \E line \in TextLines : PK_AIText(s, line)
            ELSE Dropped(s)

-----------------------------------------------------------------------------
(* Revision "queue": src/server.mjs:660-808.  No keepalive, no stopped     *)
(* flag; caller audio is queued until the AI socket opens.                 *)

PQ_AIOpen(s) ==
    /\ rev = "queue"
    /\ conn[s].rs = "CONNECTING"
    /\ Tick
    /\ LET r == sess[s]
           c0 == [conn[s] EXCEPT !.rs = "OPEN", !.opened = TRUE]
           c1 == WsSend(c0, SessionUpdate)
           flush == r.pendingAudioToAI # <<>>
           c2 == IF flush THEN WsSendAll(c1, FlushMessages(s, r.pendingAudioToAI)) ELSE c1
       IN /\ conn' = [conn EXCEPT ![s] = c2]
          /\ sess' = [sess EXCEPT ![s] =
                        [r EXCEPT !.aiReady = TRUE,
                                  !.pendingAudioToAI = IF flush THEN <<>> ELSE @,
                                  !.flushed = IF flush THEN Len(r.pendingAudioToAI) ELSE @]]
    /\ UNCHANGED <<audio, rev, proc, globalAI, aiReady, reconnects>>

(* ai.on('close'): logs only. *)
PQ_AIClose(s) ==
    /\ rev = "queue"
    /\ conn[s].rs \in {"CONNECTING", "OPEN", "CLOSING"}
    /\ Tick
    /\ conn' = [conn EXCEPT ![s].rs = "CLOSED"]
    /\ UNCHANGED <<audio, rev, proc, sess, globalAI, aiReady, reconnects>>

PQ_TwilioStart(s, callSid, streamSid) ==
    /\ rev = "queue"
    /\ sess[s].tw = "OPEN"
    /\ Tick
    /\ sess' = [sess EXCEPT ![s].callSid = callSid, ![s].streamSid = streamSid]
    /\ UNCHANGED <<audio, rev, proc, conn, globalAI, aiReady, reconnects>>

PQ_TwilioMedia(s) ==
    /\ rev = "queue"
    /\ sess[s].tw = "OPEN"
    /\ Tick
    /\ LET r == [sess[s] EXCEPT !.rx = @ + 1]
           n == r.rx
       IN IF r.aiReady /\ conn[s].rs = "OPEN"
          THEN /\ conn' = [conn EXCEPT ![s] =
                              WsSend(WsSend(@, AudioAppend(s, n)), AudioCommit(s))]
               /\ sess' = [sess EXCEPT ![s] = r]
          ELSE /\ sess' = [sess EXCEPT ![s] =
                              [r EXCEPT !.pendingAudioToAI = Append(@, n)]]
               /\ UNCHANGED conn
    /\ UNCHANGED <<audio, rev, proc, globalAI, aiReady, reconnects>>

PQ_TwilioStop(s) ==
    /\ rev = "queue"
    /\ sess[s].tw = "OPEN"
    /\ Tick
    /\ sess' = [sess EXCEPT ![s].aiCloseCalls = @ + 1]
    /\ conn' = [conn EXCEPT ![s] = WsClose(@)]
    /\ UNCHANGED <<audio, rev, proc, globalAI, aiReady, reconnects>>

PQ_TwilioClose(s) ==
    /\ rev = "queue"
    /\ sess[s].tw = "OPEN"
    /\ Tick
    /\ sess' = [sess EXCEPT ![s].tw = "CLOSED", ![s].aiCloseCalls = @ + 1]
    /\ conn' = [conn EXCEPT ![s] = WsClose(@)]
    /\ UNCHANGED <<audio, rev, proc, globalAI, aiReady, reconnects>>

PQ_onAudioDelta(r0) ==
    LET r == AudioEvent(r0)
    IN IF r.streamSid # "" /\ r.tw = "OPEN"
       THEN TwilioSend(r, AudioFrame(r.streamSid, r.rxAudio))
       ELSE r

(* The LEAD branch writes the pairs of the line into entry.lead itself    *)
(* and reads the priority from the merged record.                          *)
PQ_onTextDelta(r, delta) ==
    LET line == trim(delta)
        lead == LeadPairs(r.lead, split(LeadBody(line), ";"))
    IN IF IsTransfer(line) /\ r.callSid # "" THEN Redirect(r, "transfer")
       ELSE IF IsDone(line) /\ r.callSid # "" THEN Redirect(r, "goodbye")
       ELSE IF IsLead(line) /\ r.callSid # ""
            THEN [r EXCEPT !.lead = lead, !.priority = StickyPriority(@, lead)]
            ELSE r

PQ_AIAudio(s) ==
    /\ rev = "queue"
    /\ Receiving(conn[s])
    /\ Tick
    /\ sess' = [sess EXCEPT ![s] = PQ_onAudioDelta(@)]
    /\ UNCHANGED <<audio, rev, proc, conn, globalAI, aiReady, reconnects>>

PQ_AIText(s, line) ==
    /\ rev = "queue"
    /\ Receiving(conn[s])
    /\ Tick
    /\ sess' = [sess EXCEPT ![s] = Received(PQ_onTextDelta(@, line), line)]
    /\ UNCHANGED <<audio, rev, proc, conn, globalAI, aiReady, reconnects>>

-----------------------------------------------------------------------------
(* Revision "notify": src/server.mjs:414-531.  The call identifier lives   *)
(* in the streams registry (streams.get(twilioWs)?.callSid), modelled by   *)
(* the session's callSid field; frames to Twilio carry no streamSid.       *)

(* finalizeLeadAndNotify(callSid): calls.get(callSid) exists from the      *)
(* start event on, so the notification is built and delivered.             *)
finalizeLeadAndNotify(r) == [r EXCEPT !.finalized = @ + 1]

PN_AIOpen(s) ==
    /\ rev = "notify"
    /\ conn[s].rs = "CONNECTING"
    /\ Tick
    /\ conn' = [conn EXCEPT ![s] =
                  WsSend([@ EXCEPT !.rs = "OPEN", !.opened = TRUE], SessionUpdate)]
    /\ UNCHANGED <<audio, rev, proc, sess, globalAI, aiReady, reconnects>>

(* ai.on('close'): logs only. *)
PN_AIClose(s) ==
    /\ rev = "notify"
    /\ conn[s].rs \in {"CONNECTING", "OPEN", "CLOSING"}
    /\ Tick
    /\ conn' = [conn EXCEPT ![s].rs = "CLOSED"]
    /\ UNCHANGED <<audio, rev, proc, sess, globalAI, aiReady, reconnects>>

(* if (callSid) streams.set(twilioWs, { callSid }) *)
PN_TwilioStart(s, callSid) ==
    /\ rev = "notify"
    /\ sess[s].tw = "OPEN"
    /\ Tick
    /\ sess' = [sess EXCEPT ![s].callSid = IF callSid # "" THEN callSid ELSE @]
    /\ UNCHANGED <<audio, rev, proc, conn, globalAI, aiReady, reconnects>>

(* ai.send() with no readiness check: the exception thrown while the       *)
(* socket is CONNECTING is caught by the handler and the frame is lost.    *)
PN_TwilioMedia(s) ==
    /\ rev = "notify"
    /\ sess[s].tw = "OPEN"
    /\ Tick
    /\ sess' = [sess EXCEPT ![s].rx = @ + 1]
    /\ conn' = [conn EXCEPT ![s] =
                  IF WsThrows(@) THEN @
                  ELSE WsSend(WsSend(@, AudioAppend(s, sess[s].rx + 1)), AudioCommit(s))]
    /\ UNCHANGED <<audio, rev, proc, globalAI, aiReady, reconnects>>

PN_Terminate(r) ==
    LET r1 == IF r.callSid # "" THEN finalizeLeadAndNotify(r) ELSE r
    IN [r1 EXCEPT !.aiCloseCalls = @ + 1, !.callSid = ""]

PN_TwilioStop(s) ==
    /\ rev = "notify"
    /\ sess[s].tw = "OPEN"
    /\ Tick
    /\ sess' = [sess EXCEPT ![s] = PN_Terminate(@)]
    /\ conn' = [conn EXCEPT ![s] = WsClose(@)]
    /\ UNCHANGED <<audio, rev, proc, globalAI, aiReady, reconnects>>

PN_TwilioClose(s) ==
    /\ rev = "notify"
    /\ sess[s].tw = "OPEN"
    /\ Tick
    /\ sess' = [sess EXCEPT ![s] = [PN_Terminate(@) EXCEPT !.tw = "CLOSED"]]
    /\ conn' = [conn EXCEPT ![s] = WsClose(@)]
    /\ UNCHANGED <<audio, rev, proc, globalAI, aiReady, reconnects>>

(* twilioWs.send({ event: 'media', media: {...} }): no streamSid field. *)
PN_onAudioDelta(r0) ==
    LET r == AudioEvent(r0)
    IN TwilioSend(r, AudioFrame("", r.rxAudio))

(* st.lead = { ...st.lead, ...found }, then the emergency hint, which     *)
(* runs for every line.                                                    *)
PN_onTextDelta(r, delta) ==
    LET line == trim(delta)
        found == parseLeadLine(line)
        r1 == IF IsLead(line)
              THEN [r EXCEPT !.lead = Spread(@, found),
                             !.priority = StickyPriority(@, found)]
              ELSE IF IsTransfer(line) THEN Redirect(r, "transfer")
              ELSE IF IsDone(line) THEN Redirect(r, "goodbye")
              ELSE r
    IN IF r.callSid = "" THEN r
       ELSE IF IsEmergency(line) THEN [r1 EXCEPT !.priority = TRUE] ELSE r1

PN_AIAudio(s) ==
    /\ rev = "notify"
    /\ Receiving(conn[s])
    /\ Tick
    /\ sess' = [sess EXCEPT ![s] = PN_onAudioDelta(@)]
    /\ UNCHANGED <<audio, rev, proc, conn, globalAI, aiReady, reconnects>>

PN_AIText(s, line) ==
    /\ rev = "notify"
    /\ Receiving(conn[s])
    /\ Tick
    /\ sess' = [sess EXCEPT ![s] = Received(PN_onTextDelta(@, line), line)]
    /\ UNCHANGED <<audio, rev, proc, conn, globalAI, aiReady, reconnects>>

-----------------------------------------------------------------------------
(* Revision "calls": src/unnamed/part_002:130-262.  No queue, no readiness *)
(* flag: ai.send() is called whatever the state of the socket.  The maps   *)
(* wsForCall and aiForCall are written and never read.                     *)

PC_AIOpen(s) ==
    /\ rev = "calls"
    /\ conn[s].rs = "CONNECTING"
    /\ Tick
    /\ conn' = [conn EXCEPT ![s] =
                  WsSend([@ EXCEPT !.rs = "OPEN", !.opened = TRUE], SessionUpdate)]
    /\ UNCHANGED <<audio, rev, proc, sess, globalAI, aiReady, reconnects>>

(* ai.on('close'): logs only. *)
PC_AIClose(s) ==
    /\ rev = "calls"
    /\ conn[s].rs \in {"CONNECTING", "OPEN", "CLOSING"}
    /\ Tick
    /\ conn' = [conn EXCEPT ![s].rs = "CLOSED"]
    /\ UNCHANGED <<audio, rev, proc, sess, globalAI, aiReady, reconnects>>

(* if (!calls.has(callSid)) calls.set(...): an existing record is kept. *)
PC_TwilioStart(s, callSid, streamSid) ==
    /\ rev = "calls"
    /\ sess[s].tw = "OPEN"
    /\ Tick
    /\ sess' = [sess EXCEPT ![s].callSid = callSid, ![s].streamSid = streamSid]
    /\ UNCHANGED <<audio, rev, proc, conn, globalAI, aiReady, reconnects>>

(* The exception thrown by ai.send() while the socket is CONNECTING is     *)
(* caught by the handler and the frame is lost.                            *)
PC_TwilioMedia(s) ==
    /\ rev = "calls"
    /\ sess[s].tw = "OPEN"
    /\ Tick
    /\ sess' = [sess EXCEPT ![s].rx = @ + 1]
    /\ conn' = [conn EXCEPT ![s] =
                  IF WsThrows(@) THEN @
                  ELSE WsSend(WsSend(@, AudioAppend(s, sess[s].rx + 1)), AudioCommit(s))]
    /\ UNCHANGED <<audio, rev, proc, globalAI, aiReady, reconnects>>

PC_TwilioStop(s) ==
    /\ rev = "calls"
    /\ sess[s].tw = "OPEN"
    /\ Tick
    /\ sess' = [sess EXCEPT ![s].aiCloseCalls = @ + 1]
    /\ conn' = [conn EXCEPT ![s] = WsClose(@)]
    /\ UNCHANGED <<audio, rev, proc, globalAI, aiReady, reconnects>>

PC_TwilioClose(s) ==
    /\ rev = "calls"
    /\ sess[s].tw = "OPEN"
    /\ Tick
    /\ sess' = [sess EXCEPT ![s].tw = "CLOSED", ![s].aiCloseCalls = @ + 1]
    /\ conn' = [conn EXCEPT ![s] = WsClose(@)]
    /\ UNCHANGED <<audio, rev, proc, globalAI, aiReady, reconnects>>

(* msg.audio && streamSid; twilioWs.send() with no readyState test. *)
PC_onAudioDelta(r0) ==
    LET r == AudioEvent(r0)
    IN IF r.streamSid # "" THEN TwilioSend(r, AudioFrame(r.streamSid, r.rxAudio)) ELSE r

PC_onTextDelta(r, delta) ==
    LET line == trim(delta)
        lead == LeadPairs(r.lead, split(LeadBody(line), ";"))
    IN IF IsTransfer(line) /\ r.callSid # "" THEN Redirect(r, "transfer")
       ELSE IF IsDone(line) /\ r.callSid # "" THEN Redirect(r, "goodbye")
       ELSE IF IsLead(line) /\ r.callSid # ""
            THEN [r EXCEPT !.lead = lead, !.priority = StickyPriority(@, lead)]
            ELSE r

PC_AIAudio(s) ==
    /\ rev = "calls"
    /\ Receiving(conn[s])
    /\ Tick
    /\ sess' = [sess EXCEPT ![s] = PC_onAudioDelta(@)]
    /\ UNCHANGED <<audio, rev, proc, conn, globalAI, aiReady, reconnects>>

PC_AIText(s, delta) ==
    /\ rev = "calls"
    /\ Receiving(conn[s])
    /\ Tick
    /\ sess' = [sess EXCEPT ![s] = Received(PC_onTextDelta(@, delta), delta)]
    /\ UNCHANGED <<audio, rev, proc, conn, globalAI, aiReady, reconnects>>

-----------------------------------------------------------------------------
(* The shared AI connection of revisions "warm" (src/unnamed/part_001:     *)
(* 40-95) and "shirley" (src/server.mjs:39-98): the same code in both.     *)

(* The instance connectRealtime() creates: a new one, or, when the model   *)
(* has none left, the place of a closed instance that is no longer used.   *)
NextInstance ==
    LET Free(rs) == {i \in Instances : conn[i].rs = rs}
        First(S) == CHOOSE i \in S : \A j \in S : i <= j
    IN IF Free("NONE") # {} THEN First(Free("NONE")) ELSE First(Free("CLOSED"))

(* An ensureGlobalAI that connects once and never again. *)
ensureGlobalAIOnce ==
    IF globalAI # 0
    THEN UNCHANGED <<conn, globalAI, aiReady>>
    ELSE /\ aiReady' = FALSE
         /\ globalAI' = NextInstance
         /\ conn' = [conn EXCEPT ![NextInstance] = connectRealtime]

(* if (globalAI && globalAI.readyState === 1) return;                      *)
(* aiReady = false; globalAI = connectRealtime(); globalAI.on(...)         *)
ensureGlobalAI ==
    IF globalAI # 0 /\ conn[globalAI].rs = "OPEN"
    THEN UNCHANGED <<conn, globalAI, aiReady>>
    ELSE /\ aiReady' = FALSE
         /\ globalAI' = NextInstance
         /\ conn' = [conn EXCEPT ![NextInstance] = connectRealtime]

(* setInterval(ensureGlobalAI, 60_000) *)
Recheck ==
    /\ rev \in SharedRevs
    /\ Tick
    /\ ensureGlobalAI
    /\ UNCHANGED <<audio, rev, proc, sess, reconnects>>

(* app.post('/voice'): ensureGlobalAI() before the TwiML is returned. *)
Voice ==
    /\ rev \in SharedRevs
    /\ Tick
    /\ ensureGlobalAI
    /\ UNCHANGED <<audio, rev, proc, sess, reconnects>>

(* The setTimeout(ensureGlobalAI, 1000) of a close handler fires. *)
ReconnectTimer ==
    /\ rev \in SharedRevs
    /\ reconnects > 0
    /\ Tick
    /\ reconnects' = reconnects - 1
    /\ ensureGlobalAI
    /\ UNCHANGED <<audio, rev, proc, sess>>

(* globalAI.on('open') of instance i: the handler reads the global handle, *)
(* try { globalAI.send(session.update) } catch {}.                         *)
GlobalAIOpen(i) ==
    /\ rev \in SharedRevs
    /\ conn[i].rs = "CONNECTING"
    /\ Tick
    /\ aiReady' = TRUE
    /\ LET c0 == [conn EXCEPT ![i].rs = "OPEN", ![i].opened = TRUE]
       IN conn' = [c0 EXCEPT ![globalAI] =
                     IF WsThrows(@) THEN @ ELSE WsSend(@, SessionUpdate)]
    /\ UNCHANGED <<audio, rev, proc, sess, globalAI, reconnects>>

(* globalAI.on('close') of instance i (a failed handshake included). *)
GlobalAIClose(i) ==
    /\ rev \in SharedRevs
    /\ conn[i].rs \in {"CONNECTING", "OPEN"}
    /\ Tick
    /\ conn' = [conn EXCEPT ![i].rs = "CLOSED"]
    /\ aiReady' = FALSE
    /\ reconnects' = reconnects + 1
    /\ UNCHANGED <<audio, rev, proc, sess, globalAI>>

(* wss.on('connection') of a shared revision:                              *)
(* if (globalAI) globalAI.on('message', onAIMessage).                      *)
SharedConnection(s) ==
    /\ rev \in SharedRevs
    /\ sess[s].tw = "NONE"
    /\ \A t \in Sessions : t < s => sess[t].tw # "NONE"
    /\ Tick
    /\ sess' = [sess EXCEPT ![s] = NewSession]
    /\ conn' = IF globalAI # 0
               THEN [conn EXCEPT ![globalAI].subs = @ \cup {s}]
               ELSE conn
    /\ UNCHANGED <<audio, rev, proc, globalAI, aiReady, reconnects>>

(* globalAI && aiReady && globalAI.readyState === 1 *)
GlobalReady == globalAI # 0 /\ aiReady /\ conn[globalAI].rs = "OPEN"

(* stop and close handlers, the same in both shared revisions. *)
Shared_TwilioStop(s) ==
    /\ rev \in SharedRevs
    /\ sess[s].tw = "OPEN"
    /\ Tick
    /\ sess' = [sess EXCEPT ![s] = [ClearKeepAlive(@) EXCEPT !.stopped = TRUE]]
    /\ UNCHANGED <<audio, rev, proc, conn, globalAI, aiReady, reconnects>>

Shared_TwilioClose(s) ==
    /\ rev \in SharedRevs
    /\ sess[s].tw = "OPEN"
    /\ Tick
    /\ sess' = [sess EXCEPT ![s] = [ClearKeepAlive(@) EXCEPT !.tw = "CLOSED"]]
    /\ UNCHANGED <<audio, rev, proc, conn, globalAI, aiReady, reconnects>>

-----------------------------------------------------------------------------
(* Revision "warm": src/unnamed/part_001:134-277. *)

GW_TwilioStart(s, callSid, streamSid) ==
    /\ rev = "warm"
    /\ sess[s].tw = "OPEN"
    /\ Tick
    /\ LET r0 == [sess[s] EXCEPT !.callSid = callSid, !.streamSid = streamSid]
           r1 == IF r0.keepAlive = 0 THEN SetKeepAlive(r0) ELSE r0
       IN sess' = [sess EXCEPT ![s] = r1]
    /\ conn' = IF GlobalReady
               THEN [conn EXCEPT ![globalAI] = WsSend(@, ResponseCreate(s))]
               ELSE conn
    /\ UNCHANGED <<audio, rev, proc, globalAI, aiReady, reconnects>>

(* The queue is filled here and read nowhere in this revision. *)
GW_TwilioMedia(s) ==
    /\ rev = "warm"
    /\ sess[s].tw = "OPEN"
    /\ Tick
    /\ LET r == [sess[s] EXCEPT !.rx = @ + 1]
           n == r.rx
       IN IF GlobalReady /\ ~r.stopped
          THEN /\ conn' = [conn EXCEPT ![globalAI] =
                              WsSend(WsSend(@, AudioAppend(s, n)), AudioCommit(s))]
               /\ sess' = [sess EXCEPT ![s] = r]
          ELSE /\ sess' = [sess EXCEPT ![s] =
                              [r EXCEPT !.pendingAudioToAI = Append(@, n)]]
               /\ UNCHANGED conn
    /\ UNCHANGED <<audio, rev, proc, globalAI, aiReady, reconnects>>

GW_keepAlive(s) ==
    /\ rev = "warm"
    /\ sess[s].timers # {}
    /\ Tick
    /\ LET r == sess[s]
       IN sess' = [sess EXCEPT ![s] =
                     IF r.stopped THEN r
                     ELSE IF r.tw = "OPEN" /\ r.streamSid # "" /\ ~r.sentRealAudio
                          THEN TwilioSend(r, SilenceFrame(r.streamSid))
                          ELSE r]
    /\ UNCHANGED <<audio, rev, proc, conn, globalAI, aiReady, reconnects>>

GW_onAudioDelta(r0) ==
    LET r == AudioEvent(r0)
    IN IF r.stopped THEN r
       ELSE IF r.streamSid # "" /\ r.tw = "OPEN"
       THEN LET r1 == IF ~r.sentRealAudio /\ r.keepAlive # 0
                      THEN [ClearKeepAlive(r) EXCEPT !.sentRealAudio = TRUE]
                      ELSE r
            IN TwilioSend(r1, AudioFrame(r1.streamSid, r1.rxAudio))
       ELSE r

GW_onTextDelta(r, delta) ==
    LET line == trim(delta)
    IN IF r.stopped THEN r
       ELSE IF IsTransfer(line) /\ r.callSid # "" THEN Redirect(r, "transfer")
       ELSE IF IsDone(line) /\ r.callSid # "" THEN Redirect(r, "goodbye")
       ELSE r

(* A message of instance i goes to every onAIMessage registered on it. *)
GW_AIAudio(i) ==
    /\ rev = "warm"
    /\ Receiving(conn[i])
    /\ Tick
    /\ sess' = [s \in Sessions |->
                  IF s \in conn[i].subs THEN GW_onAudioDelta(sess[s]) ELSE sess[s]]
    /\ UNCHANGED <<audio, rev, proc, conn, globalAI, aiReady, reconnects>>

GW_AIText(i, line) ==
    /\ rev = "warm"
    /\ Receiving(conn[i])
    /\ Tick
    /\ sess' = [s \in Sessions |->
                  IF s \in conn[i].subs THEN GW_onTextDelta(sess[s], line) ELSE sess[s]]
    /\ UNCHANGED <<audio, rev, proc, conn, globalAI, aiReady, reconnects>>

-----------------------------------------------------------------------------
(* Revision "shirley": src/server.mjs:135-226. *)

(* keepAlive = setInterval(...) on every start event: an earlier interval  *)
(* is not cleared and keeps firing.                                        *)
GS_TwilioStart(s, callSid, streamSid) ==
    /\ rev = "shirley"
    /\ sess[s].tw = "OPEN"
    /\ Tick
    /\ sess' = [sess EXCEPT ![s] =
                  SetKeepAlive([@ EXCEPT !.callSid = callSid, !.streamSid = streamSid])]
    /\ conn' = IF GlobalReady
               THEN [conn EXCEPT ![globalAI] = WsSend(@, ResponseCreate(s))]
               ELSE conn
    /\ UNCHANGED <<audio, rev, proc, globalAI, aiReady, reconnects>>

(* No queue: a frame that arrives while the AI is not ready is dropped. *)
GS_TwilioMedia(s) ==
    /\ rev = "shirley"
    /\ sess[s].tw = "OPEN"
    /\ Tick
    /\ sess' = [sess EXCEPT ![s].rx = @ + 1]
    /\ conn' = IF GlobalReady /\ ~sess[s].stopped
               THEN [conn EXCEPT ![globalAI] =
                       WsSend(WsSend(@, AudioAppend(s, sess[s].rx + 1)), AudioCommit(s))]
               ELSE conn
    /\ UNCHANGED <<audio, rev, proc, globalAI, aiReady, reconnects>>

GS_keepAlive(s) ==
    /\ rev = "shirley"
    /\ sess[s].timers # {}
    /\ Tick
    /\ LET r == sess[s]
       IN sess' = [sess EXCEPT ![s] =
                     IF ~r.sentRealAudio /\ ~r.stopped /\ r.tw = "OPEN"
                     THEN TwilioSend(r, SilenceFrame(r.streamSid))
                     ELSE r]
    /\ UNCHANGED <<audio, rev, proc, conn, globalAI, aiReady, reconnects>>

GS_onAudioDelta(r0) ==
    LET r == AudioEvent(r0)
    IN IF r.stopped THEN r
       ELSE LET r1 == IF ~r.sentRealAudio /\ r.keepAlive # 0
                      THEN [ClearKeepAlive(r) EXCEPT !.sentRealAudio = TRUE]
                      ELSE r
            IN IF r1.tw = "OPEN"
               THEN TwilioSend(r1, AudioFrame(r1.streamSid, r1.rxAudio))
               ELSE r1

GS_onTextDelta(r, delta) ==
    LET line == trim(delta)
    IN IF r.stopped THEN r
       ELSE IF IsTransfer(line) /\ r.callSid # "" THEN Redirect(r, "transfer")
       ELSE IF IsDone(line) /\ r.callSid # "" THEN Redirect(r, "goodbye")
       ELSE r

GS_AIAudio(i) ==
    /\ rev = "shirley"
    /\ Receiving(conn[i])
    /\ Tick
    /\ sess' = [s \in Sessions |->
                  IF s \in conn[i].subs THEN GS_onAudioDelta(sess[s]) ELSE sess[s]]
    /\ UNCHANGED <<audio, rev, proc, conn, globalAI, aiReady, reconnects>>

GS_AIText(i, line) ==
    /\ rev = "shirley"
    /\ Receiving(conn[i])
    /\ Tick
    /\ sess' = [s \in Sessions |->
                  IF s \in conn[i].subs THEN GS_onTextDelta(sess[s], line) ELSE sess[s]]
    /\ UNCHANGED <<audio, rev, proc, conn, globalAI, aiReady, reconnects>>

-----------------------------------------------------------------------------
Init ==
    /\ rev \in Revisions
    /\ proc = "up"
    /\ sess = [s \in Sessions |-> NoSession]
    /\ globalAI = (IF rev \in SharedRevs THEN 1 ELSE 0)
    /\ conn = [i \in Instances |->
                IF i = globalAI THEN connectRealtime ELSE NoConn]
    /\ aiReady = FALSE
    /\ reconnects = 0
    /\ events = 0
    /\ audio = NoAudio

Next ==
    \/ \E s \in Sessions : PerCallConnection(s)
    \/ \E s \in Sessions : PK_AIOpen(s)
    \/ \E s \in Sessions : PK_AIClose(s)
    \/ \E s \in Sessions : \E c \in {"", CallSidOf(s)}, m \in {"", StreamSidOf(s)} :
          PK_TwilioStart(s, c, m)
    \/ \E s \in Sessions : PK_TwilioMedia(s)
    \/ \E s \in Sessions : PK_TwilioStop(s)
    \/ \E s \in Sessions : PK_TwilioClose(s)
    \/ \E s \in Sessions : PK_keepAlive(s)
    \/ \E s \in Sessions : PK_AIAudio(s)
    \/ \E s \in Sessions, line \in TextLines : PK_AIText(s, line)
    \/ \E s \in Sessions, raw \in MalformedTwilioFrames : PK_TwilioMessage(s, raw)
    \/ \E s \in Sessions, raw \in MalformedAIFrames : PK_AIMessage(s, raw)
    \/ \E s \in Sessions : PQ_AIOpen(s)
    \/ \E s \in Sessions : PQ_AIClose(s)
    \/ \E s \in Sessions : \E c \in {"", CallSidOf(s)}, m \in {"", StreamSidOf(s)} :
          PQ_TwilioStart(s, c, m)
    \/ \E s \in Sessions : PQ_TwilioMedia(s)
    \/ \E s \in Sessions : PQ_TwilioStop(s)
    \/ \E s \in Sessions : PQ_TwilioClose(s)
    \/ \E s \in Sessions : PQ_AIAudio(s)
    \/ \E s \in Sessions, line \in TextLines : PQ_AIText(s, line)
    \/ \E s \in Sessions : PN_AIOpen(s)
    \/ \E s \in Sessions : PN_AIClose(s)
    \/ \E s \in Sessions : \E c \in {"", CallSidOf(s)} : PN_TwilioStart(s, c)
    \/ \E s \in Sessions : PN_TwilioMedia(s)
    \/ \E s \in Sessions : PN_TwilioStop(s)
    \/ \E s \in Sessions : PN_TwilioClose(s)
    \/ \E s \in Sessions : PN_AIAudio(s)
    \/ \E s \in Sessions, line \in TextLines : PN_AIText(s, line)
    \/ \E s \in Sessions : PC_AIOpen(s)
    \/ \E s \in Sessions : PC_AIClose(s)
    \/ \E s \in Sessions : \E c \in {"", CallSidOf(s)}, m \in {"", StreamSidOf(s)} :
          PC_TwilioStart(s, c, m)
    \/ \E s \in Sessions : PC_TwilioMedia(s)
    \/ \E s \in Sessions : PC_TwilioStop(s)
    \/ \E s \in Sessions : PC_TwilioClose(s)
    \/ \E s \in Sessions : PC_AIAudio(s)
    \/ \E s \in Sessions, line \in TextLines : PC_AIText(s, line)
    \/ Recheck
    \/ Voice
    \/ ReconnectTimer
    \/ \E i \in Instances : GlobalAIOpen(i)
    \/ \E i \in Instances : GlobalAIClose(i)
    \/ \E s \in Sessions : SharedConnection(s)
    \/ \E s \in Sessions : Shared_TwilioStop(s)
    \/ \E s \in Sessions : Shared_TwilioClose(s)
    \/ \E s \in Sessions : \E c \in {"", CallSidOf(s)}, m \in {"", StreamSidOf(s)} :
          GW_TwilioStart(s, c, m)
    \/ \E s \in Sessions : GW_TwilioMedia(s)
    \/ \E s \in Sessions : GW_keepAlive(s)
    \/ \E i \in Instances : GW_AIAudio(i)
    \/ \E i \in Instances, line \in TextLines : GW_AIText(i, line)
    \/ \E s \in Sessions : \E c \in {"", CallSidOf(s)}, m \in {"", StreamSidOf(s)} :
          GS_TwilioStart(s, c, m)
    \/ \E s \in Sessions : GS_TwilioMedia(s)
    \/ \E s \in Sessions : GS_keepAlive(s)
    \/ \E i \in Instances : GS_AIAudio(i)
    \/ \E i \in Instances, line \in TextLines : GS_AIText(i, line)

Spec == Init /\ [][Next]_vars

-----------------------------------------------------------------------------
(* The audio helpers, src/unnamed/part_003:285-337 (the same functions in  *)
(* every revision).  JavaScript's bit operations on the values that occur  *)
(* here, written with integer arithmetic.                                  *)

BIAS == 132
CLIP == 32635

(* x & mask, for mask a power of two and x >= 0: 0 or 1. *)
Bit(x, mask) == (x \div mask) % 2

(* The value an Int16Array element holds after out[i] = x. *)
ToInt16(x) == ((x + 32768) % 65536) - 32768

mulawDecode(mu0) ==
    LET mu == 255 - mu0
        sign == Bit(mu, 128)
        exponent == (mu \div 16) % 8
        mantissa == mu % 16
        sample == ((mantissa * 16) + 8) * (2 ^ (exponent + 3)) - BIAS
    IN IF sign # 0 THEN 0 - sample ELSE sample

decodeMuLawBuffer(buf) == [i \in 1..Len(buf) |-> ToInt16(mulawDecode(buf[i]))]

(* for (expMask = 0x4000; (sample & expMask) === 0 && exponent > 0;        *)
(*      exponent--, expMask >>= 1) {}                                      *)
RECURSIVE ExponentOf(_, _, _)
ExponentOf(sample, exponent, expMask) ==
    IF Bit(sample, expMask) = 0 /\ exponent > 0
    THEN ExponentOf(sample, exponent - 1, expMask \div 2)
    ELSE exponent

linear2ulaw(sample0) ==
    LET sign == 128 * Bit((sample0 \div 256) % 256, 128)
        s1 == IF sign # 0 THEN 0 - sample0 ELSE sample0
        s2 == IF s1 > CLIP THEN CLIP ELSE s1
        sample == s2 + BIAS
        exponent == ExponentOf(sample, 7, 16384)
        mantissa ==
            (sample \div (2 ^ (IF exponent = 0 THEN 4 ELSE exponent + 3))) % 16
    IN 255 - (sign + (exponent * 16) + mantissa)

encodeMuLawBufferFromPCM(int16) == [i \in 1..Len(int16) |-> linear2ulaw(int16[i])]

up8kTo24k(int16) == [i \in 1..(3 * Len(int16)) |-> int16[((i - 1) \div 3) + 1]]

(* A decimation that keeps the last sample of every three. *)
downKeepsLast(int16) == [j \in 1..(Len(int16) \div 3) |-> int16[3 * j]]

down24kTo8k(int16) == [j \in 1..(Len(int16) \div 3) |-> int16[(3 * (j - 1)) + 1]]

(* The first revision (src/unnamed/part_003:1-221) has its own upsampler   *)
(* and downsamples inline in ai.on('message'):                             *)
(*   out[i*3] = int16[i]; out[i*3 + 1] = int16[i]; out[i*3 + 2] = int16[i] *)
upsample8kTo24k(int16) ==
    [k \in 1..(3 * Len(int16)) |->
        IF (k - 1) % 3 = 0 THEN int16[((k - 1) \div 3) + 1]
        ELSE IF (k - 1) % 3 = 1 THEN int16[((k - 2) \div 3) + 1]
        ELSE int16[((k - 3) \div 3) + 1]]

(*   pcm8k = new Int16Array(Math.floor(pcm24k.length / 3));                *)
(*   for (i = 0, j = 0; j < pcm8k.length; i += 3, j++) pcm8k[j] = pcm24k[i] *)
RECURSIVE InlineLoop(_, _, _, _)
InlineLoop(pcm24k, pcm8k, i, j) ==
    IF j < Len(pcm8k)
    THEN InlineLoop(pcm24k, [pcm8k EXCEPT ![j + 1] = pcm24k[i + 1]], i + 3, j + 1)
    ELSE pcm8k

inlineDown24kTo8k(pcm24k) ==
    InlineLoop(pcm24k, [j \in 1..(Len(pcm24k) \div 3) |-> 0], 0, 0)

(* ulawSilenceB64: Buffer.alloc(160, 0xFF); the byte of the frame. *)
SilenceByte == 255

(* Inputs: every one-byte frame, the frames up to MaxFrameLen of a few     *)
(* bytes, and every 16-bit sample.                                         *)
MaxFrameLen == 2
Bytes == 0..255
EdgeBytes == {0, 127, 128, SilenceByte}
Frames ==
    {<<b>> : b \in Bytes} \cup UNION {[1..n -> EdgeBytes] : n \in 0..MaxFrameLen}
Samples == (0 - 32768)..32767

(* Inputs of the rate converters: the sample arrays of every length up to  *)
(* MaxPcmLen (the empty one and those that are not whole triples included) *)
(* over a few samples.                                                     *)
MaxPcmLen == 4
EdgeSamples == {0 - 32768, 0, 32767}
PcmArrays == UNION {[1..n -> EdgeSamples] : n \in 0..MaxPcmLen}

CodecInit ==
    /\ rev = "keepalive"
    /\ proc = "up"
    /\ sess = [s \in Sessions |-> NoSession]
    /\ globalAI = 0
    /\ conn = [i \in Instances |-> NoConn]
    /\ aiReady = FALSE
    /\ reconnects = 0
    /\ events = 0
    /\ audio \in {[stage |-> "mulaw", src |-> f, data |-> f] : f \in Frames}
               \cup {[stage |-> "pcm", src |-> <<x>>, data |-> <<x>>] : x \in Samples}
               \cup {[stage |-> st, src |-> a, data |-> a] :
                        st \in {"pcm8k in", "pcm24k in"}, a \in PcmArrays}

(* Twilio -> AI: decodeMuLawBuffer, then up8kTo24k. *)
Codec_decode ==
    /\ audio.stage = "mulaw"
    /\ audio' = [audio EXCEPT !.stage = "pcm8k", !.data = decodeMuLawBuffer(@)]
    /\ UNCHANGED <<rev, proc, sess, conn, globalAI, aiReady, reconnects, events>>

Codec_up ==
    /\ audio.stage \in {"pcm8k", "pcm8k in"}
    /\ audio' = [audio EXCEPT
                   !.stage = IF audio.stage = "pcm8k" THEN "pcm24k" ELSE "upsampled",
                   !.data = up8kTo24k(@)]
    /\ UNCHANGED <<rev, proc, sess, conn, globalAI, aiReady, reconnects, events>>

(* The same step in the first revision. *)
Codec_upsample ==
    /\ audio.stage = "pcm8k in"
    /\ audio' = [audio EXCEPT !.stage = "upsampled", !.data = upsample8kTo24k(@)]
    /\ UNCHANGED <<rev, proc, sess, conn, globalAI, aiReady, reconnects, events>>

(* AI -> Twilio: down24kTo8k, then encodeMuLawBufferFromPCM. *)
Codec_down ==
    /\ audio.stage \in {"pcm24k", "pcm24k in", "upsampled"}
    /\ audio' = [audio EXCEPT
                   !.stage = IF audio.stage = "pcm24k" THEN "pcm8k back"
                             ELSE IF audio.stage = "pcm24k in" THEN "downsampled"
                             ELSE "resampled",
                   !.data = down24kTo8k(@)]
    /\ UNCHANGED <<rev, proc, sess, conn, globalAI, aiReady, reconnects, events>>

(* The same step in the first revision. *)
Codec_downInline ==
    /\ audio.stage \in {"pcm24k in", "upsampled"}
    /\ audio' = [audio EXCEPT
                   !.stage = IF audio.stage = "pcm24k in" THEN "downsampled"
                             ELSE "resampled",
                   !.data = inlineDown24kTo8k(@)]
    /\ UNCHANGED <<rev, proc, sess, conn, globalAI, aiReady, reconnects, events>>

Codec_encode ==
    /\ audio.stage \in {"pcm", "pcm8k", "pcm8k back"}
    /\ audio' = [audio EXCEPT
                   !.stage = IF audio.stage = "pcm" THEN "encoded"
                             ELSE IF audio.stage = "pcm8k" THEN "recoded"
                             ELSE "round trip",
                   !.data = encodeMuLawBufferFromPCM(@)]
    /\ UNCHANGED <<rev, proc, sess, conn, globalAI, aiReady, reconnects, events>>

CodecNext ==
    \/ Codec_decode
    \/ Codec_up
    \/ Codec_upsample
    \/ Codec_down
    \/ Codec_downInline
    \/ Codec_encode

CodecSpec == CodecInit /\ [][CodecNext]_vars

-----------------------------------------------------------------------------
(* The control channel of the revisions that keep a lead record (notify,   *)
(* queue, calls): text deltas handled by a call that is under way, and the *)
(* end of the call in the revision that has a finalize step (notify).      *)

LeadRevs == {"notify", "queue", "calls"}

(* msg.delta of the output_text.delta messages. *)
LeadDeltas ==
    {<<"L", "E", "A", "D", " ", "n", "a", "m", "e", "=", "J", "a", "n", "e", " ", "D", "o", "e", ";", " ", "p", "h", "o", "n", "e", "=", "5", "5", "5", "-", "0", "1", "0", "0", ";", " ", "p", "r", "i", "o", "r", "i", "t", "y", "=", "t", "r", "u", "e">>,
     <<"L", "E", "A", "D", " ", "s", "e", "r", "v", "i", "c", "e", "=", "H", "V", "A", "C">>,
     <<" ", "l", "e", "a", "d", " ", "N", "a", "m", "e", " ", "=", " ", "J", "o", " ", ";", " ", "P", "R", "I", "O", "R", "I", "T", "Y", " ", "=", " ", "T", "r", "u", "e", " ">>,
     <<"L", "E", "A", "D", " ", "p", "r", "i", "o", "r", "i", "t", "y", "=", "f", "a", "l", "s", "e">>,
     <<"L", "E", "A", "D", " ", "n", "a", "m", "e", "=", "A", "l", ";", " ", "o", "o", "p", "s">>,
     <<"L", "E", "A", "D", " ", "p", "h", "o", "n", "e">>,
     <<"L", "E", "A", "D", " ", "d", "e", "t", "a", "i", "l", "s", "=", "a", "=", "b">>,
     <<"s", "m", "o", "k", "e">>,
     <<"h", "e", "l", "l", "o">>}

(* The state after the connection, the open event of the AI socket and the *)
(* start event of call 1.                                                  *)
LeadInit ==
    /\ rev \in LeadRevs
    /\ proc = "up"
    /\ sess = [s \in Sessions |->
                IF s = 1
                THEN [NewSession EXCEPT
                        !.callSid = CallSidOf(1),
                        !.streamSid = IF rev = "notify" THEN "" ELSE StreamSidOf(1),
                        !.aiReady = (rev = "queue")]
                ELSE NoSession]
    /\ globalAI = 0
    /\ conn = [i \in Instances |->
                IF i = 1
                THEN [rs |-> "OPEN", opened |-> TRUE, log |-> <<SessionUpdate>>,
                      subs |-> {1}]
                ELSE NoConn]
    /\ aiReady = FALSE
    /\ reconnects = 0
    /\ events = 3
    /\ audio = NoAudio

LeadNext ==
    \/ \E delta \in LeadDeltas : PN_AIText(1, delta)
    \/ \E delta \in LeadDeltas : PQ_AIText(1, delta)
    \/ \E delta \in LeadDeltas : PC_AIText(1, delta)
    \/ PN_TwilioStop(1)
    \/ PN_TwilioClose(1)

LeadSpec == LeadInit /\ [][LeadNext]_vars

-----------------------------------------------------------------------------
(* The shared AI connection left to run for ever: connections fail and are *)
(* replaced without end, so the callbacks are not counted.  What is        *)
(* bounded is what the environment does at one time: the sockets that are  *)
(* connecting or open together, and the close events whose timer has not   *)
(* fired yet.                                                              *)

MaxLive == 2
MaxPending == 2

Live == Cardinality({i \in Instances : conn[i].rs \in {"CONNECTING", "OPEN"}})

(* ensureGlobalAI() returns at once, or there is room for one more socket. *)
CanAttempt == (globalAI # 0 /\ conn[globalAI].rs = "OPEN") \/ Live < MaxLive

(* Instance 1 is connecting; the instances above MaxLive + 1 are those of  *)
(* earlier connections, which opened, were configured and closed.          *)
LiveInit ==
    /\ rev \in SharedRevs
    /\ proc = "up"
    /\ sess = [s \in Sessions |-> NoSession]
    /\ globalAI = 1
    /\ conn = [i \in Instances |->
                IF i = 1 THEN connectRealtime
                ELSE IF i <= MaxLive + 1 THEN NoConn
                ELSE [rs |-> "CLOSED", opened |-> TRUE, log |-> <<SessionUpdate>>,
                      subs |-> {}]]
    /\ aiReady = FALSE
    /\ reconnects = 0
    /\ events = 0 - 1
    /\ audio = NoAudio

Live_Recheck == CanAttempt /\ Recheck
Live_Voice == CanAttempt /\ Voice
Live_ReconnectTimer == CanAttempt /\ ReconnectTimer
Live_Open(i) == GlobalAIOpen(i)
Live_Close(i) == reconnects < MaxPending /\ GlobalAIClose(i)

LiveNext ==
    \/ Live_Recheck
    \/ Live_Voice
    \/ Live_ReconnectTimer
    \/ \E i \in Instances : Live_Open(i)
    \/ \E i \in Instances : Live_Close(i)

(* The timers of Node fire: the setTimeout of a close handler once its     *)
(* delay is over, the setInterval of the re-check again and again.         *)
LiveSpec ==
    /\ LiveInit
    /\ [][LiveNext]_vars
    /\ WF_vars(Live_ReconnectTimer)
    /\ WF_vars(Live_Recheck)

-----------------------------------------------------------------------------
(* The outcomes of the external side effects.  A redirect is a promise,    *)
(* twilioClient.calls(callSid).update(...), that settles in a later        *)
(* callback; finalizeLeadAndNotify awaits its two deliveries, the text     *)
(* message and the form post, one after the other.                         *)

(* The revisions whose redirect promise has a .catch(). *)
CatchRevs == {"keepalive", "queue", "notify", "calls", "warm"}

(* A rejection that nothing handles: Node prints a warning and goes on     *)
(* (unhandled-rejections mode warn, the default before Node 15), or raises *)
(* it as an uncaught exception and the process exits (mode throw, the      *)
(* default since).  No handler of either event is installed.               *)
UnhandledRejection == {"up", "down"}

(* console.error(...) of a failed side effect. *)
LogError(r) == [r EXCEPT !.errors = @ + 1]

(* The promise of the oldest redirect that has not settled is fulfilled    *)
(* (ok) or rejected.                                                       *)
RedirectSettles(s, ok) ==
    /\ sess[s].settled < Len(sess[s].redirects)
    /\ Tick
    /\ sess' = [sess EXCEPT ![s] =
                  LET r == [@ EXCEPT !.settled = @ + 1]
                  IN IF ~ok /\ rev \in CatchRevs THEN LogError(r) ELSE r]
    /\ proc' \in (IF ok \/ rev \in CatchRevs THEN {proc} ELSE UnhandledRejection)
    /\ UNCHANGED <<audio, rev, conn, globalAI, aiReady, reconnects>>

(* await twilioClient.messages.create(...), then await fetch(...), each in *)
(* a try/catch of its own.                                                 *)
DeliverySettles(s, ok) ==
    /\ rev = "notify"
    /\ sess[s].delivered < 2 * sess[s].finalized
    /\ Tick
    /\ sess' = [sess EXCEPT ![s] =
                  LET r == [@ EXCEPT !.delivered = @ + 1]
                  IN IF ok THEN r ELSE LogError(r)]
    /\ UNCHANGED <<audio, rev, proc, conn, globalAI, aiReady, reconnects>>

FaultNext ==
    \/ Next
    \/ \E s \in Sessions, ok \in BOOLEAN : RedirectSettles(s, ok)
    \/ \E s \in Sessions, ok \in BOOLEAN : DeliverySettles(s, ok)

FaultSpec == Init /\ [][FaultNext]_vars

-----------------------------------------------------------------------------
(* The greeting request (response.create) of a call, in the revisions that *)
(* send one: "keepalive" sends it in ai.on('open'), "warm" and "shirley"   *)
(* in the start handler when the shared connection is ready.  No revision  *)
(* sets a timer that asks again later.  The callbacks are not counted;     *)
(* Twilio sends one start and one stop event per stream.                   *)

GreetRevs == {"keepalive", "warm", "shirley"}

GreetInit ==
    /\ rev \in GreetRevs
    /\ proc = "up"
    /\ sess = [s \in Sessions |-> NoSession]
    /\ globalAI = (IF rev \in SharedRevs THEN 1 ELSE 0)
    /\ conn = [i \in Instances |->
                IF i = globalAI THEN connectRealtime ELSE NoConn]
    /\ aiReady = FALSE
    /\ reconnects = 0
    /\ events = 0 - 1
    /\ audio = NoAudio

Greet_Connection(s) == PerCallConnection(s) \/ SharedConnection(s)

Greet_Start(s) ==
    /\ sess[s].callSid = ""
    /\ \/ PK_TwilioStart(s, CallSidOf(s), StreamSidOf(s))
       \/ GW_TwilioStart(s, CallSidOf(s), StreamSidOf(s))
       \/ GS_TwilioStart(s, CallSidOf(s), StreamSidOf(s))

Greet_AIOpen(i) == (i \in Sessions /\ PK_AIOpen(i)) \/ GlobalAIOpen(i)

Greet_Stop(s) ==
    /\ ~sess[s].stopped
    /\ PK_TwilioStop(s) \/ Shared_TwilioStop(s)

GreetNext ==
    \/ \E s \in Sessions : Greet_Connection(s)
    \/ \E s \in Sessions : Greet_Start(s)
    \/ \E i \in Instances : Greet_AIOpen(i)
    \/ \E s \in Sessions : Greet_Stop(s)
    \/ Live_Recheck

(* The interval timer of the re-check fires again and again. *)
GreetSpec == GreetInit /\ [][GreetNext]_vars /\ WF_vars(Live_Recheck)

-----------------------------------------------------------------------------
(* Properties. *)

(* The frame numbers of the input_audio_buffer.append messages of a log,   *)
(* for session s, in the order sent.                                       *)
RECURSIVE AppendsOf(_, _)
AppendsOf(log, s) ==
    IF log = <<>> THEN <<>>
    ELSE IF Head(log).type = "input_audio_buffer.append" /\ Head(log).s = s
         THEN <<Head(log).n>> \o AppendsOf(Tail(log), s)
         ELSE AppendsOf(Tail(log), s)

CountOf(log, type) == Cardinality({k \in 1..Len(log) : log[k].type = type})

(* C1: a session sends no media frame (keepalive silence or AI audio) to   *)
(* Twilio while its stream identifier is empty: every frame sent carries a *)
(* non-empty streamSid.                                                    *)
C1_NoFrameWithoutStreamSid ==
    \A s \in Sessions : \A k \in 1..Len(sess[s].toTwilio) :
        sess[s].toTwilio[k].streamSid # ""

(* C2: no keepalive frame is sent to Twilio after the first AI audio frame *)
(* of the session.                                                         *)
C2_NoKeepaliveAfterAudio ==
    \A s \in Sessions : \A j, k \in 1..Len(sess[s].toTwilio) :
        (j < k /\ sess[s].toTwilio[j].kind = "audio")
            => sess[s].toTwilio[k].kind # "keepalive"

(* C3: in the revisions that flush (keepalive, queue), the step in which   *)
(* the call's AI socket opens delivers exactly the frames received so far, *)
(* in arrival order, each once, and leaves the queue empty.                *)
C3_FlushInArrivalOrder ==
    [][\A s \in Sessions :
          (rev \in {"keepalive", "queue"}
             /\ conn[s].rs = "CONNECTING" /\ conn'[s].rs = "OPEN")
          => /\ AppendsOf(conn'[s].log, s) = [k \in 1..sess[s].rx |-> k]
             /\ sess'[s].pendingAudioToAI = <<>>]_vars

(* C3 witness: a flush has delivered two queued frames. *)
C3_Witness ==
    \E s \in Sessions :
        /\ sess[s].flushed = 2
        /\ AppendsOf(conn[s].log, s) = <<1, 2>>

(* C4: caller audio reaches the AI in receipt order: no frame is still     *)
(* waiting in the queue while a frame received after it has been sent, and *)
(* the frames sent on a connection are in the order received.              *)
C4_ReceiptOrder ==
    \A s \in Sessions : \A i \in Instances :
        LET sent == AppendsOf(conn[i].log, s)
            q == sess[s].pendingAudioToAI
        IN /\ \A j, k \in 1..Len(sent) : j < k => sent[j] < sent[k]
           /\ \A j \in 1..Len(sent), k \in 1..Len(q) : q[k] > sent[j]

(* C5: once a session has handled TRANSFER or DONE no further control      *)
(* action fires: the redirect interface is invoked at most once.           *)
C5_RedirectOnce ==
    \A s \in Sessions : Len(sess[s].redirects) <= 1

(* C6: for a session that was terminated (stop event or socket close, in   *)
(* any combination) the AI connection close is invoked exactly once and    *)
(* the lead finalize step at most once.                                    *)
C6_TerminationIdempotent ==
    \A s \in Sessions :
        (rev \in PerCallRevs /\ (sess[s].tw = "CLOSED" \/ sess[s].aiCloseCalls > 0))
            => sess[s].aiCloseCalls = 1 /\ sess[s].finalized <= 1

(* C7: while the backoff timer set by a close is pending, a step opens a   *)
(* new connection attempt only if it is that timer firing.                 *)
C7_ReconnectBackoff ==
    [][(reconnects > 0 /\ globalAI' # globalAI) => reconnects' = reconnects - 1]_vars

(* C8: at most one AI connection instance is connecting or open.           *)
C8_OneLiveConnection ==
    rev \in SharedRevs =>
        Cardinality({i \in Instances : conn[i].rs \in {"CONNECTING", "OPEN"}}) <= 1

(* C9: every AI connection instance that has opened was sent the session   *)
(* configuration exactly once, before anything else.                       *)
C9_ConfiguredOnce ==
    \A i \in Instances :
        /\ CountOf(conn[i].log, "session.update") <= 1
        /\ conn[i].opened => CountOf(conn[i].log, "session.update") = 1
        /\ conn[i].log # <<>> => conn[i].log[1] = SessionUpdate

(* C10: a closed AI connection is never marked ready.                      *)
C10_ClosedNotReady ==
    /\ \A s \in Sessions :
          (rev \in PerCallRevs /\ conn[s].rs = "CLOSED") => ~sess[s].aiReady
    /\ (rev \in SharedRevs /\ conn[globalAI].rs = "CLOSED") => ~aiReady

-----------------------------------------------------------------------------
(* Properties of the lead record, checked under LeadSpec. *)

HasEq(pair) == \E i \in 1..Len(pair) : pair[i] = "="

FirstEq(pair) ==
    CHOOSE i \in 1..Len(pair) : pair[i] = "=" /\ \A j \in 1..(i - 1) : pair[j] # "="

(* The key and the value a <key>=<value> segment states: the text before   *)
(* the first "=" and the whole text after it, trimmed.                     *)
KeyOf(pair) == toLowerCase(trim(SubSeq(pair, 1, FirstEq(pair) - 1)))
ValueOf(pair) == trim(SubSeq(pair, FirstEq(pair) + 1, Len(pair)))

Segments(delta) == split(LeadBody(trim(delta)), ";")

WellFormed(delta) ==
    \A n \in 1..Len(Segments(delta)) :
        HasEq(Segments(delta)[n]) /\ KeyOf(Segments(delta)[n]) # <<>>

RECURSIVE StatedPairs(_, _)
StatedPairs(out, pairs) ==
    IF pairs = <<>> THEN out
    ELSE StatedPairs(Assign(out, KeyOf(Head(pairs)), ValueOf(Head(pairs))), Tail(pairs))

(* The record a sequence of well-formed LEAD lines states. *)
RECURSIVE StatedLead(_, _)
StatedLead(out, deltas) ==
    IF deltas = <<>> THEN out
    ELSE StatedLead(StatedPairs(out, Segments(Head(deltas))), Tail(deltas))

(* C11: after any sequence of well-formed LEAD lines, the lead record maps *)
(* each key (lower-cased, trimmed) to the trimmed value of the latest line *)
(* that contained the key, and keeps the keys later lines do not mention.  *)
C11_LeadMerge ==
    \A s \in Sessions :
        (rev \in LeadRevs /\ \A n \in 1..Len(sess[s].rxLead) : WellFormed(sess[s].rxLead[n]))
            => sess[s].lead = StatedLead(<<>>, sess[s].rxLead)

(* C12: the priority flag is sticky: once true, no later text line (a LEAD *)
(* line lacking priority, one with priority=false, any other line) sets it *)
(* back to false.                                                          *)
C12_PrioritySticky ==
    [][\A s \in Sessions : sess[s].priority => sess'[s].priority]_vars

(* The flag is true although the latest value of the priority field of the *)
(* record is "false".                                                      *)
C12_Witness ==
    \E s \in Sessions :
        /\ sess[s].priority
        /\ PriorityKey \in DOMAIN sess[s].lead
        /\ sess[s].lead[PriorityKey] = <<"f", "a", "l", "s", "e">>
        /\ Len(sess[s].rxLead) >= 2

(* C13: a LEAD segment with no "=" is skipped: every key of the record and *)
(* its value come from a segment that has an "=".                          *)
C13_MalformedSkipped ==
    \A s \in Sessions : \A k \in DOMAIN sess[s].lead :
        \E n \in 1..Len(sess[s].rxLead) :
            \E m \in 1..Len(Segments(sess[s].rxLead[n])) :
                LET pair == Segments(sess[s].rxLead[n])[m]
                IN /\ HasEq(pair)
                   /\ KeyOf(pair) = k
                   /\ trim(split(pair, "=")[2]) = sess[s].lead[k]

-----------------------------------------------------------------------------
(* Properties of the keepalive timer, the queue and the fan-out. *)

(* C14: a session has at most one active keepalive timer, whatever start   *)
(* events it has received.                                                 *)
C14_OneKeepaliveTimer ==
    \A s \in Sessions : Cardinality(sess[s].timers) <= 1

(* The AI connection that serves session s has been open at some time. *)
AIHasBeenReady(s) ==
    IF rev \in PerCallRevs THEN conn[s].opened
    ELSE \E i \in Instances : conn[i].opened

(* C15: the pending-audio queue is a startup buffer only: once the AI      *)
(* connection has become ready the queue is empty, and it stays empty      *)
(* whatever media, stop or AI close events follow.                         *)
C15_StartupBufferOnly ==
    \A s \in Sessions : AIHasBeenReady(s) => sess[s].pendingAudioToAI = <<>>

(* C16: after a stop event or the close of the telephony socket no         *)
(* keepalive timer of the session is active, whatever events arrive later  *)
(* (another start included).                                               *)
C16_NoTimerAfterStop ==
    \A s \in Sessions :
        (sess[s].stopped \/ sess[s].tw = "CLOSED") => sess[s].timers = {}

(* C17: in the shared-connection revisions every session that is active is *)
(* subscribed to the messages of the connection instance that is open now, *)
(* also when the session was created before that instance.                 *)
C17_FanOutToAllSessions ==
    (rev \in SharedRevs /\ conn[globalAI].rs = "OPEN")
        => \A s \in Sessions :
              (sess[s].tw = "OPEN" /\ ~sess[s].stopped) => s \in conn[globalAI].subs

-----------------------------------------------------------------------------
(* The state of the sessions apart from the record of dropped frames. *)
SessionState == [s \in Sessions |-> [sess[s] EXCEPT !.dropped = FALSE]]

(* C18: a malformed frame on the telephony socket (unparseable JSON,       *)
(* unknown event, media event without payload) or on the AI socket is      *)
(* dropped: the step that handles it changes nothing of the session, the   *)
(* AI connection or the global state, so later events are handled as if    *)
(* the frame had not arrived.                                              *)
C18_MalformedFrameDropped ==
    [][((\E s \in Sessions, raw \in MalformedTwilioFrames : PK_TwilioMessage(s, raw))
         \/ (\E s \in Sessions, raw \in MalformedAIFrames : PK_AIMessage(s, raw)))
        => /\ SessionState' = SessionState
           /\ UNCHANGED <<audio, rev, proc, conn, globalAI, aiReady, reconnects>>]_vars

(* A malformed frame was dropped in a call that has a keepalive timer, a   *)
(* queued frame and a stream identifier, all still there.                  *)
C18_Witness ==
    \E s \in Sessions :
        /\ sess[s].dropped
        /\ sess[s].timers # {}
        /\ sess[s].pendingAudioToAI # <<>>
        /\ sess[s].streamSid # ""

-----------------------------------------------------------------------------
(* Properties of the codec, checked under CodecSpec. *)

(* ITU-T G.711 mu-law expansion of a byte. *)
G711Expand(u0) ==
    LET u == 255 - u0
        t == (((u % 16) * 8) + 132) * (2 ^ ((u \div 16) % 8))
    IN IF u \div 128 = 1 THEN 132 - t ELSE t - 132

(* ITU-T G.711 mu-law compression of a 16-bit sample. *)
G711Compress(pcm) ==
    LET sign == IF pcm < 0 THEN 128 ELSE 0
        mag0 == IF pcm < 0 THEN 0 - pcm ELSE pcm
        mag == (IF mag0 > 32635 THEN 32635 ELSE mag0) + 132
        exponent == CHOOSE e \in 0..7 :
                        /\ (e > 0 => mag \div (2 ^ (e + 7)) >= 1)
                        /\ (e < 7 => mag \div (2 ^ (e + 8)) = 0)
        mantissa == (mag \div (2 ^ (exponent + 3))) % 16
    IN 255 - (sign + (exponent * 16) + mantissa)

(* C19: codec round trip: encoding the decoded sample of a byte gives the  *)
(* byte back, and a frame that is decoded, upsampled by 3, downsampled by  *)
(* 3 and encoded comes back byte for byte.                                 *)
C19_CodecRoundTrip ==
    audio.stage \in {"recoded", "round trip"} => audio.data = audio.src

(* C20: mulawDecode is the G.711 mu-law expansion of every byte (so the    *)
(* silence byte decodes to 0), linear2ulaw is the G.711 compression of     *)
(* every 16-bit sample, and a frame has one byte per sample.               *)
C20_G711Exact ==
    /\ audio.stage = "pcm8k" =>
          /\ Len(audio.data) = Len(audio.src)
          /\ \A i \in 1..Len(audio.src) : audio.data[i] = G711Expand(audio.src[i])
    /\ audio.stage = "encoded" =>
          /\ Len(audio.data) = Len(audio.src)
          /\ \A i \in 1..Len(audio.src) : audio.data[i] = G711Compress(audio.src[i])

-----------------------------------------------------------------------------
(* Properties of the reconnection, checked under LiveSpec. *)

(* The global handle names a socket that is connecting or open. *)
AttemptInFlight == globalAI # 0 /\ conn[globalAI].rs \in {"CONNECTING", "OPEN"}

(* C21: whenever the shared AI connection is down (its socket closed, by a *)
(* close event or after an error), a new connection attempt is eventually  *)
(* opened, by the timer of the close handler or by the periodic re-check.  *)
C21_EventuallyReconnects ==
    (rev \in SharedRevs /\ ~AttemptInFlight) ~> AttemptInFlight

(* A connection failed during its handshake, its timer has fired, and a    *)
(* new attempt is in flight.                                               *)
C21_Witness ==
    /\ \E i \in Instances : conn[i].rs = "CLOSED" /\ ~conn[i].opened
    /\ reconnects = 0
    /\ conn[globalAI].rs = "CONNECTING"

-----------------------------------------------------------------------------
(* Properties of the keepalive during an outage. *)

(* The revisions that have a keepalive timer. *)
KeepaliveRevs == {"keepalive", "warm", "shirley"}

AudioSent(s) == \E k \in 1..Len(sess[s].toTwilio) : sess[s].toTwilio[k].kind = "audio"

(* The session has a stream identifier, is neither stopped nor closed, and *)
(* has sent no AI audio to the caller.                                     *)
KeepaliveDue(s) ==
    /\ rev \in KeepaliveRevs
    /\ sess[s].streamSid # ""
    /\ ~sess[s].stopped
    /\ sess[s].tw = "OPEN"
    /\ ~AudioSent(s)

(* The AI connection that serves session s cannot take or give audio. *)
AIUnavailable(s) ==
    IF rev \in PerCallRevs THEN conn[s].rs # "OPEN" ELSE ~GlobalReady

(* C22: from the start event on, while the session has a stream            *)
(* identifier, is not stopped or closed and has sent no AI audio, its      *)
(* keepalive timer is active and every tick of it sends one silence frame  *)
(* with the stream identifier, whatever the state of the AI connection.    *)
C22_SilenceDuringOutage ==
    /\ [](\A s \in Sessions :
            KeepaliveDue(s) => sess[s].keepAlive # 0 /\ sess[s].keepAlive \in sess[s].timers)
    /\ [][\A s \in Sessions :
            (KeepaliveDue(s) /\ (PK_keepAlive(s) \/ GW_keepAlive(s) \/ GS_keepAlive(s)))
                => sess'[s].toTwilio =
                       Append(sess[s].toTwilio, SilenceFrame(sess[s].streamSid))]_vars

(* Two silence frames were sent while the AI connection was unavailable,   *)
(* and the timer is still running.                                         *)
C22_Witness ==
    \E s \in Sessions :
        /\ KeepaliveDue(s)
        /\ AIUnavailable(s)
        /\ sess[s].timers # {}
        /\ sess[s].toTwilio = <<SilenceFrame(StreamSidOf(s)), SilenceFrame(StreamSidOf(s))>>

-----------------------------------------------------------------------------
(* Properties of the control lines. *)

(* The text handler of the revision that runs. *)
onTextDelta(r, delta) ==
    CASE rev = "keepalive" -> PK_onTextDelta(r, delta)
      [] rev = "queue" -> PQ_onTextDelta(r, delta)
      [] rev = "notify" -> PN_onTextDelta(r, delta)
      [] rev = "calls" -> PC_onTextDelta(r, delta)
      [] rev = "warm" -> GW_onTextDelta(r, delta)
      [] rev = "shirley" -> GS_onTextDelta(r, delta)

(* A text message can reach the handler of session s: the AI socket the    *)
(* handler is registered on is receiving.                                  *)
TextCanArrive(s) ==
    /\ sess[s].tw # "NONE"
    /\ IF rev \in PerCallRevs THEN Receiving(conn[s])
       ELSE \E i \in Instances : s \in conn[i].subs /\ Receiving(conn[i])

(* The session has handled a stop event or the close of its socket. *)
Terminated(s) ==
    sess[s].stopped \/ sess[s].tw = "CLOSED" \/ sess[s].aiCloseCalls > 0

(* The trimmed line is the word, whatever its case. *)
IsWord(delta, word) == toLowerCase(trim(delta)) = word

(* C23: in every state in which a text line can arrive, the handler        *)
(* invokes no redirect and changes nothing of the session while the call   *)
(* identifier is unknown; in a session that has the identifier and is not  *)
(* terminated, a line that is TRANSFER once trimmed, in any case, invokes   *)
(* the redirect to the transfer destination once, one that is DONE the     *)
(* redirect to the goodbye destination, and any other line no redirect.    *)
C23_RedirectNeedsCallSid ==
    \A s \in Sessions, delta \in TextLines :
        TextCanArrive(s) =>
            LET r == sess[s]
                after == onTextDelta(r, delta)
            IN /\ r.callSid = "" => after = r
               /\ (r.callSid # "" /\ ~Terminated(s)) =>
                     after.redirects =
                        IF IsWord(delta, <<"t", "r", "a", "n", "s", "f", "e", "r">>)
                        THEN Append(r.redirects, "transfer")
                        ELSE IF IsWord(delta, <<"d", "o", "n", "e">>)
                        THEN Append(r.redirects, "goodbye")
                        ELSE r.redirects

(* A call with a known identifier was redirected to the transfer           *)
(* destination and then to the goodbye destination.                        *)
C23_Witness ==
    \E s \in Sessions :
        /\ sess[s].callSid = CallSidOf(s)
        /\ sess[s].redirects = <<"transfer", "goodbye">>

(* The line is none of TRANSFER, DONE and a LEAD line. *)
Unrecognized(delta) ==
    /\ ~IsWord(delta, <<"t", "r", "a", "n", "s", "f", "e", "r">>)
    /\ ~IsWord(delta, <<"d", "o", "n", "e">>)
    /\ ~IsLead(trim(delta))

(* C24: the step that handles an unrecognized text line changes nothing of *)
(* any session: not the lead record, not the priority flag, no redirect.   *)
C24_UnrecognizedIgnored ==
    [][\A delta \in LeadDeltas :
          (Unrecognized(delta)
             /\ (PN_AIText(1, delta) \/ PQ_AIText(1, delta) \/ PC_AIText(1, delta)))
          => sess' = sess]_vars

-----------------------------------------------------------------------------
(* Properties of the rate converters, checked under CodecSpec. *)

(* C25: upsampling x gives 3 * Len(x) samples, each x[i] three times in a   *)
(* row; downsampling y gives floor(Len(y) / 3) samples, the first of every *)
(* three, for y of any length (empty, or not a whole number of triples);   *)
(* and downsampling the upsampled x gives x.                               *)
C25_HoldAndDecimate ==
    /\ audio.stage = "upsampled" =>
          /\ Len(audio.data) = 3 * Len(audio.src)
          /\ \A i \in 1..Len(audio.src) : \A k \in 1..3 :
                audio.data[(3 * (i - 1)) + k] = audio.src[i]
    /\ audio.stage = "downsampled" =>
          /\ Len(audio.data) = Len(audio.src) \div 3
          /\ \A j \in 1..Len(audio.data) : audio.data[j] = audio.src[(3 * (j - 1)) + 1]
    /\ audio.stage = "resampled" => audio.data = audio.src

(* An array of four different-ended samples was cut down to its first.     *)
C25_Witness ==
    /\ audio.stage = "downsampled"
    /\ audio.src = <<32767, 0, 0, 0 - 32768>>
    /\ audio.data = <<32767>>

-----------------------------------------------------------------------------
(* Properties of the audio paths. *)

(* How many times frame n of session s was sent to the AI, on any socket,  *)
(* and how many times it is in the queue.                                  *)
TimesSent(s, n) ==
    Cardinality({<<i, k>> \in Instances \X (1..(2 * MaxEvents)) :
                    k <= Len(conn[i].log) /\ conn[i].log[k] = AudioAppend(s, n)})

TimesQueued(s, n) ==
    Cardinality({k \in 1..Len(sess[s].pendingAudioToAI) : sess[s].pendingAudioToAI[k] = n})

(* The AI connection that serves session s is open. *)
AIOpenFor(s) ==
    IF rev \in PerCallRevs THEN conn[s].rs = "OPEN" ELSE GlobalReady

(* C26: in a session that is not terminated, every caller frame received   *)
(* so far has either been sent to the AI once or is in the pending queue    *)
(* once, never both and never neither; and while the AI connection is open  *)
(* the queue is empty, every frame queued before having been sent.          *)
C26_NoFrameLost ==
    \A s \in Sessions :
        ~Terminated(s) =>
            /\ \A n \in 1..sess[s].rx : TimesSent(s, n) + TimesQueued(s, n) = 1
            /\ AIOpenFor(s) => sess[s].pendingAudioToAI = <<>>

(* The AI audio frames session s has sent to Twilio, in the order sent. *)
AudioFramesOf(s) == SelectSeq(sess[s].toTwilio, LAMBDA f : f.kind = "audio")

(* C27: the AI audio frames a session has sent to Twilio are made from     *)
(* output_audio.delta events it received, in the order it received them,   *)
(* and none was sent twice: their event numbers increase strictly.         *)
C27_AudioInReceiptOrder ==
    \A s \in Sessions :
        LET sent == AudioFramesOf(s)
        IN /\ \A k \in 1..Len(sent) : sent[k].n \in 1..sess[s].rxAudio
           /\ \A j, k \in 1..Len(sent) : j < k => sent[j].n < sent[k].n

(* Of three audio events the first was dropped (no stream identifier yet)  *)
(* and the other two were sent in order.                                   *)
C27_Witness ==
    \E s \in Sessions :
        /\ sess[s].rxAudio = 3
        /\ Len(AudioFramesOf(s)) = 2
        /\ AudioFramesOf(s)[1].n = 2
        /\ AudioFramesOf(s)[2].n = 3

-----------------------------------------------------------------------------
(* Properties of the end of a call. *)

(* The caller frames of session s sent to the AI, on every socket. *)
SentToAI(s) == [i \in Instances |-> AppendsOf(conn[i].log, s)]

(* C28: a session that has handled a stop event or the close of its        *)
(* telephony socket is closed for good: no later step forwards caller      *)
(* audio of it to the AI, sends a frame to Twilio, invokes the redirect    *)
(* interface or changes its lead record.                                   *)
C28_ClosedIsTerminal ==
    [][\A s \in Sessions :
          Terminated(s) =>
             /\ SentToAI(s)' = SentToAI(s)
             /\ sess'[s].toTwilio = sess[s].toTwilio
             /\ sess'[s].redirects = sess[s].redirects
             /\ sess'[s].lead = sess[s].lead]_vars

(* C29: when the session is destroyed (stop event or socket close) the     *)
(* finalize/notify step has fired once if lead data was captured during    *)
(* the call, and has not fired if none was.                                *)
C29_NotifyIffLeadCaptured ==
    \A s \in Sessions :
        (rev = "notify" /\ sess[s].aiCloseCalls > 0)
            => sess[s].finalized = IF sess[s].lead # <<>> THEN 1 ELSE 0

-----------------------------------------------------------------------------
(* Properties of the external side effects, checked under FaultSpec. *)

(* A redirect or a notification delivery of session s fails. *)
SideEffectFails(s) == RedirectSettles(s, FALSE) \/ DeliverySettles(s, FALSE)

(* Record r with the counters of settled side effects and of logged        *)
(* errors taken from record q.                                             *)
SameButOutcomes(r, q) ==
    [r EXCEPT !.settled = q.settled, !.delivered = q.delivered, !.errors = q.errors]

(* C30: the step in which a redirect or a notification delivery fails is   *)
(* absorbed: it changes no session (but for the count of outcomes and the  *)
(* error log) and no AI connection, and the process stays up, so the       *)
(* events that follow are handled as they would have been.                 *)
C30_SideEffectFailureAbsorbed ==
    [][\A s \in Sessions :
          SideEffectFails(s) =>
             /\ proc' = "up"
             /\ conn' = conn
             /\ \A u \in Sessions : SameButOutcomes(sess'[u], sess[u]) = sess[u]]_vars

-----------------------------------------------------------------------------
(* Properties of the greeting, checked under GreetSpec. *)

(* The AI connection that serves session s is ready. *)
ReadyFor(s) == IF rev \in SharedRevs THEN GlobalReady ELSE conn[s].rs = "OPEN"

(* A greeting request of session s was sent to the AI. *)
Greeted(s) ==
    \E i \in Instances : \E k \in 1..Len(conn[i].log) : conn[i].log[k] = ResponseCreate(s)

(* C31: a started session whose AI connection is ready and that has no     *)
(* greeting request yet gets one (the greeting retry), unless real AI      *)
(* audio arrives or the session ends first.                                *)
C31_GreetedOnceReady ==
    \A s \in Sessions :
        (sess[s].callSid # "" /\ ReadyFor(s) /\ ~Greeted(s))
            ~> (Greeted(s) \/ sess[s].sentRealAudio \/ sess[s].stopped
                  \/ sess[s].tw = "CLOSED")

-----------------------------------------------------------------------------
(* Properties of two calls side by side. *)

(* The state of a session that belongs to its call alone. *)
OwnState(r) ==
    [lead |-> r.lead, priority |-> r.priority, keepAlive |-> r.keepAlive,
     timers |-> r.timers, stopped |-> r.stopped, redirects |-> r.redirects]

(* C32: sessions are isolated: an event belongs to one call, so no step    *)
(* changes the lead record, priority flag, keepalive state or stopped flag *)
(* of two sessions, or redirects two calls.                                *)
C32_SessionsIsolated ==
    [][\A s, u \in Sessions :
          s # u => \/ OwnState(sess'[s]) = OwnState(sess[s])
                   \/ OwnState(sess'[u]) = OwnState(sess[u])]_vars

-----------------------------------------------------------------------------
(* Properties of the readiness flag of the shared connection. *)

(* C33: in the shared-connection revisions the readiness flag is true only *)
(* if the instance the global handle holds is open, also after an earlier  *)
(* instance, replaced in the handle, has opened late.                      *)
C33_ReadyMeansHandleOpen ==
    (rev \in SharedRevs /\ aiReady) => (globalAI # 0 /\ conn[globalAI].rs = "OPEN")

(* C34: in the shared-connection revisions readiness is not false while    *)
(* the instance the global handle holds is open: the close of an instance  *)
(* that was replaced in the handle does not clear the flag.                *)
C34_HandleOpenMeansReady ==
    (rev \in SharedRevs /\ globalAI # 0 /\ conn[globalAI].rs = "OPEN") => aiReady

-----------------------------------------------------------------------------
(* C35: in the revisions that keep the flag, sentRealAudio is true exactly *)
(* when at least one AI audio frame was sent to Twilio in the session,     *)
(* whatever the order of the start, stop and AI audio events.              *)
C35_RealAudioFlagAccurate ==
    \A s \in Sessions :
        rev \in KeepaliveRevs => (sess[s].sentRealAudio <=> AudioFramesOf(s) # <<>>)

-----------------------------------------------------------------------------
(* C36: in the shared-connection revisions the sessions whose handler is   *)
(* registered on the instance the global handle holds are the sessions     *)
(* whose telephony socket is open: the handler of a session is removed     *)
(* when its socket closes.                                                 *)
C36_SubscribersAreOpenSessions ==
    (rev \in SharedRevs /\ globalAI # 0)
        => conn[globalAI].subs = {s \in Sessions : sess[s].tw = "OPEN"}

-----------------------------------------------------------------------------
(* C37: the value mulawDecode computes for a byte lies in the range of a   *)
(* signed 16-bit sample, so the element of the Int16Array that receives it *)
(* holds that value.  Checked under CodecSpec.                             *)
C37_DecodeFitsInt16 ==
    audio.stage = "pcm8k" =>
        \A i \in 1..Len(audio.src) :
            /\ mulawDecode(audio.src[i]) \in Samples
            /\ audio.data[i] = mulawDecode(audio.src[i])

====
